---- MODULE Spec2Model ----
(***************************************************************************)
(* Model of score.py (hf-tgi scoring script): init() launches the          *)
(* text-generation server and waits for it in is_server_healthy(), run()   *)
(* parses a request with get_request_data() and forwards it to the         *)
(* backend through client.generate().                                      *)
(***************************************************************************)
EXTENDS Integers, Sequences, FiniteSets, TLC

(* ---------------------------- bounds ----------------------------------- *)
\* longest list of prompt strings a request carries
MaxLen == 2
\* longest chat transcript a request carries
MaxTurns == 3
\* readiness-loop cycles that are told apart (the loop itself is unbounded)
MaxCycles == 2
\* longest time a client.generate call is seen waiting (in ticks)
MaxDelay == 1

(* ------------------------ program constants ---------------------------- *)
RETRY_COUNT == 5
WAIT_TIME == 20

TEXT_GENERATION == "text-generation"
CHAT_COMPLETION == "chat-completion"
\* a task_type string an MLmodel file may carry that SupportedTask lacks
OTHER_TASK == "summarization"

NoClient == "None"
TheClient == "Client"

VARIABLES
  client,        \* global client: NoClient or TheClient
  task_type,     \* global task_type
  ipc,           \* position of init()
  mlmodel,       \* init: what the MLmodel file gave (until the server starts)
  init_error,    \* message of the exception init() raised ("" if none)
  launched,      \* os.system(cmd) has started text-generation-launcher
  count,         \* is_server_healthy: local count
  lookups,       \* is_server_healthy: process lookups done in this call
  found,         \* is_server_healthy: a lookup of this call found the process
  probes,        \* is_server_healthy: requests.post calls of this call
  probe,         \* is_server_healthy: what the last requests.post did
  healthy,       \* value is_server_healthy returned ("none" inside a call)
  slept,         \* seconds slept inside the current is_server_healthy call
  cycles,        \* unhealthy cycles of the readiness loop being run (saturating)
  hc_true,       \* a health check of this init has returned True
  absent_seen,   \* a lookup of the readiness loop being run found no process
  rpc,           \* position of run()
  req,           \* payload run() was called with
  parsed,        \* run() has called get_request_data in this call
  query,         \* run: query returned by get_request_data
  params,        \* run: params returned by get_request_data
  results,       \* run: results list (result_dict for chat-completion)
  calls,         \* client.generate calls of this run: [prompt, params, out]
  response,      \* what the last run() returned
  waited,        \* ticks the pending client.generate call has taken so far
  latencies,     \* how long the calls of this run took: some of "fast", "slow"
  prev_raise,    \* the previous run() ended in a backend exception
  sent           \* a scoring request has reached the backend

ivars == <<ipc, mlmodel, init_error, launched, count, lookups, found, probes, probe,
           healthy, slept, cycles, hc_true, absent_seen>>
rvars == <<rpc, req, parsed, query, params, results, calls, response,
           waited, latencies, prev_raise, sent>>
vars == <<client, task_type, ipc, mlmodel, init_error, launched, count, lookups, found,
          probes, probe, healthy, slept, cycles, hc_true, absent_seen, rpc, req,
          parsed,
          query, params, results, calls, response, waited, latencies,
          prev_raise, sent>>

(* ------------------------------ init() --------------------------------- *)
\* init() is called once, when the process starts (line 264); run() may be
\* called at any time, also before init has finished or after it has failed.
\* What os.path.exists / yaml.safe_load give for the MLmodel file, and
\* whether os.listdir(model_path) works.
Mlmodels ==
  [exists : {FALSE}, loads : {"ok"}, flavors : {"absent"}, task : {"absent"}]
  \cup [exists : {TRUE}, loads : {"error", "empty"}, flavors : {"absent"},
        task : {"absent"}]
  \cup [exists : {TRUE}, loads : {"ok"}, flavors : {"absent", "other"},
        task : {"absent"}]
  \cup [exists : {TRUE}, loads : {"ok"}, flavors : {"hftransformersv2"},
        task : {"absent", TEXT_GENERATION, CHAT_COMPLETION, OTHER_TASK}]

\* the MLmodel file has not been read, or is of no use any more
NoMlmodel ==
  [exists |-> FALSE, loads |-> "none", flavors |-> "absent", task |-> "absent"]

StartupError(e) == "Error in creating client or server: " \o e

\* the except clause of init: the exception is wrapped and raised again
init_raise(e) ==
  /\ ipc' = "failed"
  /\ init_error' = StartupError(e)

NoProbe == [raised |-> FALSE, status |-> 0]

\* a call of is_server_healthy starts with fresh locals
hc_locals_reset ==
  /\ probe' = NoProbe
  /\ count' = 0
  /\ lookups' = 0
  /\ found' = FALSE
  /\ probes' = 0
  /\ slept' = 0
  /\ healthy' = "none"

\* a check that lets every task_type through
is_supported_any(t) == TRUE

\* line 125 negated
is_supported(t) == t \in {TEXT_GENERATION, CHAT_COMPLETION}

\* lines 108-126: read the MLmodel file and set the global task_type
init_load_mlmodel ==
  /\ ipc = "start"
  /\ \E m \in Mlmodels :
       /\ mlmodel' = m
       /\ IF m.exists /\ m.loads = "error"
          THEN /\ init_raise("yaml error")
               /\ UNCHANGED task_type
          ELSE IF m.exists /\ m.loads = "ok" /\ m.flavors = "hftransformersv2"
          THEN IF m.task = "absent"
               THEN /\ init_raise("'task_type'")
                    /\ UNCHANGED task_type
               ELSE /\ task_type' = m.task
                    /\ IF ~is_supported(m.task)
                       THEN init_raise("Unsupported task_type " \o m.task)
                       ELSE ipc' = "listdir" /\ UNCHANGED init_error
          ELSE /\ ipc' = "listdir"
               /\ UNCHANGED <<task_type, init_error>>
  /\ UNCHANGED <<client, launched, count, lookups, found, probes, probe,
                 healthy, slept, cycles, hc_true, absent_seen>>
  /\ UNCHANGED rvars

\* lines 128-129: os.listdir(model_path)
init_listdir ==
  /\ ipc = "listdir"
  /\ \E path_exists \in BOOLEAN :
       IF path_exists
       THEN ipc' = "launch" /\ UNCHANGED init_error
       ELSE init_raise("No such file or directory")
  /\ UNCHANGED <<client, task_type, launched, count, lookups, found, probes,
                 probe, healthy, slept, cycles, hc_true, absent_seen>>
  /\ UNCHANGED <<rvars, mlmodel>>

\* a start of the server that is not followed by any health check
init_start_server_no_wait ==
  /\ ipc = "launch"
  /\ launched' = TRUE
  /\ ipc' = "client"
  /\ hc_locals_reset
  /\ mlmodel' = NoMlmodel
  /\ UNCHANGED <<client, task_type, init_error, cycles, hc_true,
                 absent_seen>>
  /\ UNCHANGED rvars

\* lines 131-134: start the server, sleep, enter the first is_server_healthy
init_start_server ==
  /\ ipc = "launch"
  /\ launched' = TRUE
  /\ ipc' = "lookup"
  /\ hc_locals_reset
  /\ mlmodel' = NoMlmodel
  /\ UNCHANGED <<client, task_type, init_error, cycles, hc_true,
                 absent_seen>>
  /\ UNCHANGED rvars

\* a retry test that is off by one
may_retry_once_more(c) == c <= RETRY_COUNT

\* line 68: the first conjunct of the while condition
may_retry(c) == c < RETRY_COUNT

\* line 68, one evaluation of the while condition with count < RETRY_COUNT,
\* and lines 69-71 when the process is absent
is_server_healthy_lookup ==
  /\ ipc = "lookup"
  /\ may_retry(count)
  /\ lookups' = lookups + 1
  /\ \E running \in BOOLEAN :
       IF running
       THEN /\ found' = TRUE
            /\ ipc' = "probe"
            /\ UNCHANGED <<count, slept, absent_seen>>
       ELSE /\ count' = count + 1
            /\ slept' = slept + WAIT_TIME
            /\ absent_seen' = TRUE
            /\ UNCHANGED <<found, ipc>>
  /\ UNCHANGED <<client, task_type, init_error, launched, probes, probe,
                 healthy, cycles, hc_true>>
  /\ UNCHANGED <<rvars, mlmodel>>

\* lines 72-74 reached with count >= RETRY_COUNT; the exception leaves
\* is_server_healthy and is caught by init's except clause (149-150)
is_server_healthy_raise ==
  /\ ipc = "lookup"
  /\ count >= RETRY_COUNT
  /\ init_raise("Sever process not running after waiting for "
                  \o ToString(RETRY_COUNT * WAIT_TIME) \o ". Terminating")
  /\ UNCHANGED <<client, task_type, launched, count, lookups, found, probes,
                 probe, healthy, slept, cycles, hc_true, absent_seen>>
  /\ UNCHANGED <<rvars, mlmodel>>

\* what requests.post can do: answer with a status code or raise
ProbeOutcomes ==
  [raised : {FALSE}, status : {200, 201, 204, 500}]
  \cup [raised : {TRUE}, status : {0}]

\* a probe that takes every answer for a healthy one
probe_result_any_status(p) == ~p.raised

\* lines 86-99
probe_result(p) ==
  IF p.raised THEN FALSE
  ELSE IF p.status = 200 \/ p.status = 201 THEN TRUE
  ELSE FALSE

\* lines 76-99: the process is running, send the test request
is_server_healthy_probe ==
  /\ ipc = "probe"
  /\ \E p \in ProbeOutcomes :
       /\ probe' = p
       /\ healthy' = IF probe_result(p) THEN "True" ELSE "False"
  /\ probes' = probes + 1
  /\ ipc' = "loop"
  /\ UNCHANGED <<client, task_type, init_error, launched, count, lookups,
                 found, slept, cycles, hc_true, absent_seen>>
  /\ UNCHANGED <<rvars, mlmodel>>

\* a loop condition without its "not": a healthy server is polled again
init_server_started_inverted ==
  /\ ipc = "loop"
  /\ healthy = "True"
  /\ ipc' = "lookup"
  /\ hc_locals_reset
  /\ UNCHANGED <<client, task_type, init_error, launched, cycles, hc_true,
                 absent_seen>>
  /\ UNCHANGED <<rvars, mlmodel>>

\* line 137 with is_server_healthy() = True: leave the loop
init_server_started ==
  /\ ipc = "loop"
  /\ healthy = "True"
  /\ hc_true' = TRUE
  /\ ipc' = "client"
  /\ hc_locals_reset
  /\ cycles' = 0
  /\ absent_seen' = FALSE
  /\ UNCHANGED <<client, task_type, init_error, launched>>
  /\ UNCHANGED <<rvars, mlmodel>>

\* a readiness loop that gives up after the first unhealthy cycle
init_server_not_up_bounded ==
  /\ ipc = "loop"
  /\ healthy = "False"
  /\ IF cycles >= 1
     THEN /\ ipc' = "failed"
          /\ init_error' = "Error in creating client or server: not up"
          /\ UNCHANGED <<count, lookups, found, probes, probe, healthy, slept,
                         cycles>>
     ELSE /\ cycles' = cycles + 1
          /\ ipc' = "lookup"
          /\ probe' = [raised |-> FALSE, status |-> 0]
          /\ count' = 0
          /\ lookups' = 0
          /\ found' = FALSE
          /\ probes' = 0
          /\ slept' = 0
          /\ healthy' = "none"
          /\ UNCHANGED init_error
  /\ UNCHANGED <<client, task_type, launched, hc_true, absent_seen>>
  /\ UNCHANGED <<rvars, mlmodel>>

\* lines 137-139 with is_server_healthy() = False: sleep, call it again
init_server_not_up ==
  /\ ipc = "loop"
  /\ healthy = "False"
  /\ cycles' = IF cycles < MaxCycles THEN cycles + 1 ELSE cycles
  /\ ipc' = "lookup"
  /\ hc_locals_reset
  /\ UNCHANGED <<client, task_type, init_error, launched, hc_true,
                 absent_seen>>
  /\ UNCHANGED <<rvars, mlmodel>>

\* a client that is bound to the global before its construction can fail
init_create_client_early ==
  /\ ipc = "client"
  /\ client' = "Client"
  /\ \E constructed \in BOOLEAN :
       IF constructed
       THEN ipc' = "done" /\ UNCHANGED init_error
       ELSE init_raise("client construction failed")
  /\ UNCHANGED <<task_type, launched, count, lookups, found, probes, probe,
                 healthy, slept, cycles, hc_true, absent_seen>>
  /\ UNCHANGED <<rvars, mlmodel>>

\* lines 140-148: Client(...) is constructed and bound to the global
init_create_client ==
  /\ ipc = "client"
  /\ \E constructed \in BOOLEAN :
       IF constructed
       THEN /\ client' = TheClient
            /\ ipc' = "done"
            /\ UNCHANGED init_error
       ELSE /\ init_raise("client construction failed")
            /\ UNCHANGED client
  /\ UNCHANGED <<task_type, launched, count, lookups, found, probes, probe,
                 healthy, slept, cycles, hc_true, absent_seen>>
  /\ UNCHANGED <<rvars, mlmodel>>

InitStep ==
  \/ init_load_mlmodel
  \/ init_listdir
  \/ init_start_server
  \/ is_server_healthy_lookup
  \/ is_server_healthy_raise
  \/ is_server_healthy_probe
  \/ init_server_started
  \/ init_server_not_up
  \/ init_create_client

(* --------------------------- request payloads -------------------------- *)
\* Strings that are taken apart (strip, concatenation) are sequences of
\* characters; a JSON value inside input_string is a string or an object
\* with "role" and "content".
JStr(s) == [k |-> "str", role |-> "", content |-> s]
JTurn(r, c) == [k |-> "turn", role |-> r, content |-> c]

Prompts == {JStr(<<"p">>), JStr(<<" ", "q">>)}
Turns == {JTurn("user", <<" ", "A">>), JTurn("user", <<"C", " ">>),
          JTurn("assistant", <<" ", "B", "\n">>), JTurn("system", <<"S">>)}

SeqsUpTo(S, n) == UNION {[1..m -> S] : m \in 0..n}

InputStrings ==
  SeqsUpTo(Prompts, MaxLen) \cup SeqsUpTo(Turns, MaxTurns)
  \cup {<<JTurn("user", <<" ", "A">>), JStr(<<"p">>)>>}

\* a parameters mapping is a set of <<key, value>> pairs
SomeParams == {<<"max_new_tokens", 2>>}
NoParams == {}

\* A payload is what json.loads makes of the request bytes, as far as
\* get_request_data looks at it.
Payload(top, inp, istr, items, par, map) ==
  [top |-> top, input_data |-> inp, input_string |-> istr, items |-> items,
   parameters |-> par, map |-> map]

Payloads ==
  {Payload("notjson", "absent", "absent", <<>>, "absent", NoParams),
   Payload("nonobj", "absent", "absent", <<>>, "absent", NoParams),
   Payload("obj", "absent", "absent", <<>>, "absent", NoParams),
   Payload("obj", "nondict", "absent", <<>>, "absent", NoParams),
   Payload("obj", "dict", "absent", <<>>, "absent", NoParams),
   Payload("obj", "dict", "absent", <<>>, "dict", SomeParams),
   Payload("obj", "dict", "nonlist", <<>>, "absent", NoParams),
   Payload("obj", "dict", "nonlist", <<>>, "nondict", NoParams),
   Payload("obj", "dict", "list", <<JStr(<<"p">>)>>, "nondict", NoParams),
   Payload("obj", "dict", "list", <<JTurn("user", <<" ", "A">>)>>, "nondict",
           NoParams)}
  \cup {Payload("obj", "dict", "list", l, "absent", NoParams) :
          l \in InputStrings}
  \cup {Payload("obj", "dict", "list", l, "dict", SomeParams) :
          l \in InputStrings}

NoPayload == Payload("none", "absent", "absent", <<>>, "absent", NoParams)

(* ------------------------------ messages ------------------------------- *)
\* str(e) of an exception: a plain text, or the json.dumps of a dict with
\* the keys "error" and "exception" (line 213).
Plain(s) == [enc |-> "plain", text |-> s, inner |-> ""]
JsonDumpsError(err, exc) == [enc |-> "json", text |-> err, inner |-> exc]

USAGE_HINT == "Expected input format"
PROCESSING_ERROR == "Error in processing request"
NOT_INITIALIZED == "Client is not initialized"

(* ------------- get_processed_input_data_for_chat_completion ------------ *)
B_INST == <<"[", "I", "N", "S", "T", "]">>
E_INST == <<"[", "/", "I", "N", "S", "T", "]">>

IsSpace(c) == c \in {" ", "\n", "\t"}

RECURSIVE LStrip(_)
LStrip(s) ==
  IF s = <<>> THEN s
  ELSE IF IsSpace(Head(s)) THEN LStrip(Tail(s)) ELSE s

RECURSIVE RStrip(_)
RStrip(s) ==
  IF s = <<>> THEN s
  ELSE IF IsSpace(s[Len(s)]) THEN RStrip(SubSeq(s, 1, Len(s) - 1)) ELSE s

\* a content that is used as it came
Strip_omitted(s) == s

\* str.strip()
Strip(s) == RStrip(LStrip(s))

FlatOk(h) == [ok |-> TRUE, history |-> h, exc |-> ""]
FlatFail(e) == [ok |-> FALSE, history |-> <<>>, exc |-> e]

\* conv["role"] on a str raises TypeError; a failed assert has str(e) = ""
TYPE_ERROR == "string indices must be integers"

\* lines 171-177: the loop over conv_arr[1:], from loop index i on
RECURSIVE ChatLoop(_, _, _)
ChatLoop(rest, i, history) ==
  IF rest = <<>> THEN FlatOk(history)
  ELSE LET conv == Head(rest) IN
       IF conv.k # "turn" THEN FlatFail(TYPE_ERROR)
       ELSE IF i % 2 = 0
       THEN IF conv.role # "assistant" THEN FlatFail("")
            ELSE ChatLoop(Tail(rest), i + 1,
                          history \o Strip(conv.content) \o <<"\n">>)
       ELSE IF conv.role # "user" THEN FlatFail("")
            ELSE ChatLoop(Tail(rest), i + 1,
                          history \o B_INST \o Strip(conv.content) \o E_INST)

\* lines 153-178
get_processed_input_data_for_chat_completion(data) ==
  IF Len(data) = 0 THEN FlatFail("")
  ELSE IF data[1].k # "turn" THEN FlatFail(TYPE_ERROR)
  ELSE IF data[1].role # "user" THEN FlatFail("")
  ELSE IF data[Len(data)].k # "turn" THEN FlatFail(TYPE_ERROR)
  ELSE IF data[Len(data)].role # "user" THEN FlatFail("")
  ELSE ChatLoop(Tail(data), 0, B_INST \o Strip(data[1].content) \o E_INST)

(* --------------------------- get_request_data -------------------------- *)
\* the query handed back: the input_string list, or for chat-completion the
\* one flattened prompt string
ListQuery(l) == [is_list |-> TRUE, items |-> l]
StrQuery(s) == [is_list |-> FALSE, items |-> <<JStr(s)>>]
NoQuery == ListQuery(<<>>)

\* a parser that raises the inner exception as it is
ParseFail_unwrapped(e) ==
  [ok |-> FALSE, query |-> [is_list |-> TRUE, items |-> <<>>],
   params |-> {}, err |-> Plain(e)]

ParseOk(q, p) == [ok |-> TRUE, query |-> q, params |-> p, err |-> Plain("")]
\* lines 212-222: every failure is raised again as Exception(json.dumps(...))
ParseFail(e) ==
  [ok |-> FALSE, query |-> NoQuery, params |-> NoParams,
   err |-> JsonDumpsError(USAGE_HINT, e)]

\* a parser that forgets the parameters of the request
params_of_dropped(data) == {}

\* line 199: inputs.get("parameters", {})
params_of(data) == IF data.parameters = "absent" THEN NoParams ELSE data.map

\* lines 181-222, with the global task_type as tt
get_request_data(data, tt) ==
  IF data.top = "notjson" THEN ParseFail("Expecting value")
  ELSE IF data.top # "obj" THEN ParseFail("object has no attribute 'get'")
  ELSE IF data.input_data # "dict" THEN ParseFail("Invalid input data")
  ELSE IF data.input_string = "absent" THEN ParseFail("'input_string'")
  ELSE IF data.input_string # "list" THEN ParseFail("query is not a list")
  ELSE IF data.parameters = "nondict"
  THEN ParseFail("parameters is not a dict")
  ELSE IF tt = CHAT_COMPLETION
  THEN LET flat == get_processed_input_data_for_chat_completion(data.items)
       IN  IF flat.ok THEN ParseOk(StrQuery(flat.history), params_of(data))
           ELSE ParseFail(flat.exc)
  ELSE ParseOk(ListQuery(data.items), params_of(data))

(* -------------------------------- run() -------------------------------- *)
\* generated_text of a backend answer, and str(e) of a failed generate call
Texts == {"t1", "t2"}
BackendErrors == {"read timed out", "status 500"}

\* the payloads run can return, as the documents json.dumps serialises;
\* "raised" stands for an exception leaving run
Resp(kind, items, err, exc) ==
  [kind |-> kind, items |-> items, error |-> err, exception |-> exc]
NoResponse == Resp("none", <<>>, "", Plain(""))
ListResponse(rs) == Resp("list", rs, "", Plain(""))
\* a chat-completion branch that returns the list form
ObjectResponse_as_list(rs) == Resp("list", rs, "", Plain(""))
ObjectResponse(rs) == Resp("object", rs, "", Plain(""))
Envelope(err, exc) == Resp("envelope", <<>>, err, exc)
Propagated(e) == Resp("raised", <<>>, "", e)

\* an except clause that lets the exception through
run_except_reraises(e) == Propagated(e)

\* lines 256-260: except Exception as e, e given by its str(e)
run_except(e) == Envelope(PROCESSING_ERROR, e)

\* an assert with the isinstance test the wrong way round
assert_text_generation_inverted(tt, q) == tt = TEXT_GENERATION /\ ~q.is_list

\* line 245
assert_text_generation(tt, q) == tt = TEXT_GENERATION /\ q.is_list

Pending == [st |-> "pending", text |-> ""]
Call(q, p) == [prompt |-> q, params |-> p, out |-> Pending]
Answer(c, st, t) == [c EXCEPT !.out = [st |-> st, text |-> t]]

\* lines 242 and 253: {str(i): f'{response_str}'}
ResultDict(i, t) == [key |-> ToString(i), text |-> t]

LastRaised ==
  /\ calls # <<>>
  /\ calls[Len(calls)].out.st = "raised"

\* a run that does not look at the client before using it
is_initialized_unchecked(c) == TRUE

\* line 231 negated: the global client has been set
is_initialized(c) == c # NoClient

\* run returns: the call is over
run_returns(r) ==
  /\ response' = r
  /\ rpc' = "returned"

\* lines 230-245: client check, get_request_data, choice of the branch
run_begin ==
  /\ rpc = "idle"
  /\ \E data \in Payloads :
       /\ req' = data
       /\ IF ~is_initialized(client)
          THEN /\ run_returns(run_except(Plain(NOT_INITIALIZED)))
               /\ parsed' = FALSE
               /\ query' = NoQuery
               /\ params' = NoParams
          ELSE LET r == get_request_data(data, task_type) IN
               /\ parsed' = TRUE
               /\ query' = r.query
               /\ params' = r.params
               /\ IF ~r.ok
                  THEN run_returns(run_except(r.err))
                  ELSE IF task_type = CHAT_COMPLETION
                  THEN rpc' = "chat" /\ response' = NoResponse
                  ELSE IF ~assert_text_generation(task_type, r.query)
                  THEN run_returns(run_except(
                         Plain("query should be a list for text-generation")))
                  ELSE rpc' = "loop" /\ response' = NoResponse
  /\ UNCHANGED <<client, task_type, results, calls, waited, latencies,
                 prev_raise, sent>>
  /\ UNCHANGED ivars

\* a loop that takes the prompts from the end of the list
next_prompt_reversed == query.items[Len(query.items) - Len(results)]

\* the prompt the next client.generate call carries (lines 239, 248-250)
next_prompt == query.items[Len(results) + 1]

\* line 239 / line 250: client.generate(q, **params) goes out
run_generate ==
  /\ \/ rpc = "chat"
     \/ rpc = "loop" /\ Len(results) < Len(query.items)
  /\ calls' = Append(calls, Call(next_prompt, params))
  /\ rpc' = IF rpc = "chat" THEN "chat_wait" ELSE "loop_wait"
  /\ sent' = TRUE
  /\ waited' = 0
  /\ UNCHANGED <<client, task_type, req, parsed, query, params, results,
                 response, latencies, prev_raise>>
  /\ UNCHANGED ivars

\* the backend has not answered yet: client.generate keeps blocking
run_generate_blocks ==
  /\ rpc \in {"chat_wait", "loop_wait"}
  /\ waited < MaxDelay
  /\ waited' = waited + 1
  /\ UNCHANGED <<client, task_type, rpc, req, parsed, query, params, results,
                 calls, response, latencies, prev_raise, sent>>
  /\ UNCHANGED ivars

\* time_taken of the call that ends now (lines 240, 251), as a class
time_taken == IF waited = 0 THEN "fast" ELSE "slow"

\* the generate call comes back with generated_text (lines 239-243, 250-253)
run_generate_returns ==
  /\ rpc \in {"chat_wait", "loop_wait"}
  /\ \E t \in Texts :
       /\ calls' = [calls EXCEPT ![Len(calls)] = Answer(@, "ok", t)]
       /\ results' = Append(results, ResultDict(Len(results), t))
  /\ IF rpc = "chat_wait"
     THEN run_returns(ObjectResponse(results'))
     ELSE rpc' = "loop" /\ UNCHANGED response
  /\ latencies' = latencies \cup {time_taken}
  /\ waited' = 0
  /\ UNCHANGED <<client, task_type, req, parsed, query, params, prev_raise,
                 sent>>
  /\ UNCHANGED ivars

\* a failed generate call after which the client is thrown away
run_generate_raises_drops_client ==
  /\ rpc \in {"chat_wait", "loop_wait"}
  /\ \E e \in BackendErrors :
       /\ calls' = [calls EXCEPT ![Len(calls)] = Answer(@, "raised", e)]
       /\ run_returns(run_except(Plain(e)))
  /\ client' = "None"
  /\ latencies' = latencies \cup {IF waited = 0 THEN "fast" ELSE "slow"}
  /\ waited' = 0
  /\ UNCHANGED <<task_type, req, parsed, query, params, results, prev_raise,
                 sent>>
  /\ UNCHANGED ivars

\* a failed generate call after which the outputs so far are returned
run_generate_raises_partial ==
  /\ rpc \in {"chat_wait", "loop_wait"}
  /\ \E e \in BackendErrors :
       calls' = [calls EXCEPT ![Len(calls)] = Answer(@, "raised", e)]
  /\ run_returns(ListResponse(results))
  /\ latencies' = latencies \cup {IF waited = 0 THEN "fast" ELSE "slow"}
  /\ waited' = 0
  /\ UNCHANGED <<client, task_type, req, parsed, query, params, results,
                 prev_raise, sent>>
  /\ UNCHANGED ivars

\* a failed generate call that is issued once more
run_generate_raises_retried ==
  /\ rpc \in {"chat_wait", "loop_wait"}
  /\ Len(calls) <= Len(query.items)
  /\ \E e \in BackendErrors :
       calls' = Append([calls EXCEPT ![Len(calls)] = Answer(@, "raised", e)],
                       Call(calls[Len(calls)].prompt, params))
  /\ UNCHANGED <<client, task_type, rpc, req, parsed, query, params, results,
                 response, waited, latencies, prev_raise, sent>>
  /\ UNCHANGED ivars

\* the generate call raises; the except clause of run takes over
run_generate_raises ==
  /\ rpc \in {"chat_wait", "loop_wait"}
  /\ \E e \in BackendErrors :
       /\ calls' = [calls EXCEPT ![Len(calls)] = Answer(@, "raised", e)]
       /\ run_returns(run_except(Plain(e)))
  /\ latencies' = latencies \cup {time_taken}
  /\ waited' = 0
  /\ UNCHANGED <<client, task_type, req, parsed, query, params, results,
                 prev_raise, sent>>
  /\ UNCHANGED ivars

\* line 254: the for loop is exhausted
run_return_results ==
  /\ rpc = "loop"
  /\ Len(results) = Len(query.items)
  /\ run_returns(ListResponse(results))
  /\ UNCHANGED <<client, task_type, req, parsed, query, params, results,
                 calls, waited, latencies, prev_raise, sent>>
  /\ UNCHANGED ivars

\* the caller has the returned payload; request and result are discarded
run_end ==
  /\ rpc = "returned"
  /\ rpc' = "idle"
  /\ prev_raise' = LastRaised
  /\ req' = NoPayload
  /\ parsed' = FALSE
  /\ query' = NoQuery
  /\ params' = NoParams
  /\ results' = <<>>
  /\ calls' = <<>>
  /\ response' = NoResponse
  /\ latencies' = {}
  /\ UNCHANGED <<client, task_type, waited, sent>>
  /\ UNCHANGED ivars

RunStep ==
  \/ run_begin
  \/ run_generate
  \/ run_generate_blocks
  \/ run_generate_returns
  \/ run_generate_raises
  \/ run_return_results
  \/ run_end

(* --------------------------- specification ----------------------------- *)
\* lines 58-59: the module-level globals; nothing has been called yet
Init ==
  /\ client = NoClient
  /\ task_type = TEXT_GENERATION
  /\ ipc = "start"
  /\ mlmodel = NoMlmodel
  /\ init_error = ""
  /\ launched = FALSE
  /\ count = 0
  /\ lookups = 0
  /\ found = FALSE
  /\ probes = 0
  /\ probe = NoProbe
  /\ healthy = "none"
  /\ slept = 0
  /\ cycles = 0
  /\ hc_true = FALSE
  /\ absent_seen = FALSE
  /\ rpc = "idle"
  /\ req = NoPayload
  /\ parsed = FALSE
  /\ query = NoQuery
  /\ params = NoParams
  /\ results = <<>>
  /\ calls = <<>>
  /\ response = NoResponse
  /\ waited = 0
  /\ latencies = {}
  /\ prev_raise = FALSE
  /\ sent = FALSE

Next == InitStep \/ RunStep

Spec == Init /\ [][Next]_vars

\* init runs in the thread that called it, statement after statement, and
\* every sleep ends: a step of init that can be taken is taken
LiveSpec == Spec /\ WF_vars(InitStep)

(* ------------------------------- claims -------------------------------- *)
Running == {"chat", "loop", "chat_wait", "loop_wait"}

WellFormed(data) ==
  /\ data.top = "obj"
  /\ data.input_data = "dict"
  /\ data.input_string = "list"
  /\ data.parameters # "nondict"

IsSuccessList(r) ==
  /\ r.kind = "list"
  /\ \A i \in 1..Len(r.items) :
       r.items[i].key = ToString(i - 1) /\ r.items[i].text \in Texts

IsChatObject(r) ==
  /\ r.kind = "object"
  /\ Len(r.items) = 1
  /\ r.items[1].key = "0"
  /\ r.items[1].text \in Texts

IsErrorEnvelope(r) ==
  /\ r.kind = "envelope"
  /\ r.items = <<>>
  /\ r.error # ""
  /\ r.exception.enc \in {"plain", "json"}

\* C1: a call of run always comes back with a payload that is a
\* text-generation list, a chat-completion object {"0": text} or an error
\* envelope; no exception leaves run, and a call that is under way can always
\* take its next step and makes at most one generate call per query item.
C1_RunAlwaysReturnsPayload ==
  /\ response.kind # "raised"
  /\ rpc = "returned" =>
       \/ IsSuccessList(response)
       \/ IsChatObject(response)
       \/ IsErrorEnvelope(response)
  /\ rpc # "returned" => response = NoResponse
  /\ rpc \in Running =>
       /\ Len(calls) <= Len(query.items)
       /\ Len(results) <= Len(calls)
       /\ ENABLED (run_generate \/ run_generate_returns
                     \/ run_generate_raises \/ run_return_results)

\* an initialized run whose backend call raised has returned the envelope
C1_Witness ==
  /\ rpc = "returned"
  /\ client = TheClient
  /\ LastRaised
  /\ Len(calls) = 2
  /\ IsErrorEnvelope(response)

NotInitializedEnvelope == Envelope(PROCESSING_ERROR, Plain(NOT_INITIALIZED))

\* C2: a call of run that starts while client is unset returns the
\* "Client is not initialized" envelope whatever the payload, without calling
\* get_request_data and without a generate call.
C2_UninitializedRunFailsClosed ==
  [][(rpc = "idle" /\ rpc' # "idle" /\ client = NoClient) =>
       /\ rpc' = "returned"
       /\ response' = NotInitializedEnvelope
       /\ parsed' = FALSE
       /\ calls' = <<>>
       /\ sent' = sent]_vars

\* run was called with a well-formed request while init was still polling
C2_Witness ==
  /\ rpc = "returned"
  /\ ipc = "probe"
  /\ client = NoClient
  /\ WellFormed(req)
  /\ Len(req.items) = 2
  /\ response = NotInitializedEnvelope
  /\ ~parsed
  /\ ~sent

ParseFailed == rpc = "returned" /\ parsed /\ ~get_request_data(req, task_type).ok

\* C3 as stated: on a parse failure run returns the parser's payload
\* unchanged, "error" being the usage hint and "exception" the inner message.
C3_ParserPayloadUnchanged ==
  ParseFailed =>
    /\ response.kind = "envelope"
    /\ response.error = USAGE_HINT
    /\ response.exception.enc = "plain"

\* C3 amended: on a parse failure run returns its own envelope: "error" is
\* "Error in processing request" and "exception" is the parser's serialised
\* payload, which holds the usage hint and the inner exception message.
C3_ParserPayloadWrapped ==
  ParseFailed =>
    /\ response.kind = "envelope"
    /\ response.error = PROCESSING_ERROR
    /\ response.exception.enc = "json"
    /\ response.exception.text = USAGE_HINT
    /\ response.exception.inner \in
         {"Expecting value", "object has no attribute 'get'",
          "Invalid input data", "'input_string'", "query is not a list",
          "parameters is not a dict", "", TYPE_ERROR}
    /\ calls = <<>>

\* an initialized run was given a request without input_data
C3_Witness ==
  /\ ParseFailed
  /\ client = TheClient
  /\ req.top = "obj"
  /\ req.input_data = "absent"
  /\ response.exception.inner = "Invalid input data"

AllAnswered == \A i \in 1..Len(calls) : calls[i].out.st = "ok"

\* C4: a text-generation run over n prompts whose generate calls all succeed
\* has made exactly n calls, one after the other in input order, each with
\* the parsed parameters, and returns n objects, the i-th being
\* {str(i): output of the call for prompt i}; at any time at most the last
\* call is pending, however long calls take.
C4_TextGenerationInOrder ==
  /\ \A i \in 1..Len(calls) :
       calls[i].out.st = "pending" => i = Len(calls) /\ rpc \in Running
  /\ (task_type = TEXT_GENERATION /\ rpc \in Running) =>
       /\ req.items = query.items
       /\ \A i \in 1..Len(calls) :
            calls[i].prompt = req.items[i] /\ calls[i].params = req.map
  /\ (task_type = TEXT_GENERATION /\ rpc = "returned" /\ parsed
        /\ WellFormed(req) /\ AllAnswered) =>
       /\ response.kind = "list"
       /\ Len(calls) = Len(req.items)
       /\ Len(response.items) = Len(req.items)
       /\ \A i \in 1..Len(req.items) :
            /\ calls[i].prompt = req.items[i]
            /\ calls[i].params = req.map
            /\ response.items[i] =
                 [key |-> ToString(i - 1), text |-> calls[i].out.text]

\* two different prompts got different outputs after calls of different
\* length
C4_Witness ==
  /\ task_type = TEXT_GENERATION
  /\ rpc = "returned"
  /\ response.kind = "list"
  /\ Len(req.items) = 2
  /\ req.items[1] # req.items[2]
  /\ req.map = SomeParams
  /\ response.items[1].text # response.items[2].text
  /\ latencies = {"fast", "slow"}

ChatRequest == task_type = CHAT_COMPLETION /\ parsed /\ WellFormed(req)

\* C5: a chat-completion run with a valid transcript makes exactly one
\* generate call, with the flattened transcript and the parsed parameters,
\* and returns {"0": generated text} when the call succeeds; with an invalid
\* transcript it makes no call.
C5_ChatCompletionOneCall ==
  LET flat == get_processed_input_data_for_chat_completion(req.items) IN
  /\ (ChatRequest /\ rpc \in Running \cup {"returned"}) => Len(calls) <= 1
  /\ (ChatRequest /\ rpc = "returned" /\ flat.ok) =>
       /\ Len(calls) = 1
       /\ calls[1].prompt = JStr(flat.history)
       /\ calls[1].params = req.map
       /\ calls[1].out.st = "ok" =>
            response = Resp("object",
                            <<[key |-> "0", text |-> calls[1].out.text]>>,
                            "", Plain(""))
  /\ (ChatRequest /\ rpc = "returned" /\ ~flat.ok) =>
       /\ calls = <<>>
       /\ response.kind = "envelope"

\* a transcript of three turns was answered
C5_Witness ==
  /\ ChatRequest
  /\ rpc = "returned"
  /\ Len(req.items) = 3
  /\ req.map = SomeParams
  /\ response.kind = "object"
  /\ Len(calls) = 1

\* C6: a generate call that raises ends the run with the envelope
\* {"error": "Error in processing request", "exception": message}; the failed
\* call is the last call of the run (it is not issued again), and the next
\* run with a valid request whose generate calls succeed returns a success
\* payload.
C6_BackendFailureEnvelope ==
  /\ \A i \in 1..Len(calls) :
       calls[i].out.st = "raised" =>
         /\ i = Len(calls)
         /\ rpc = "returned"
         /\ response = Envelope(PROCESSING_ERROR, Plain(calls[i].out.text))
         /\ calls[i].out.text \in BackendErrors
  /\ Len(calls) <= Len(query.items)
  /\ prev_raise => client = TheClient
  /\ (prev_raise /\ rpc = "returned"
        /\ get_request_data(req, task_type).ok /\ AllAnswered) =>
       /\ response.kind \in {"list", "object"}
       /\ Len(response.items) = Len(calls)

\* after a run that failed in the backend, a run over two prompts succeeded
C6_Witness ==
  /\ prev_raise
  /\ rpc = "returned"
  /\ response.kind = "list"
  /\ Len(response.items) = 2

InReadinessLoop == ipc \in {"lookup", "probe", "loop"}

\* C7: a health check that returned False never ends init: the next step of
\* init starts a whole new health check, whatever the number of cycles so
\* far; and as long as every lookup has found the process and no probe was
\* answered with 200/201, init stays in the readiness loop with no error
\* raised and the client unset.
C7_UnhealthyIsRetriedForever ==
  /\ [][(ipc = "loop" /\ healthy = "False" /\ ipc' # ipc) =>
          /\ ipc' = "lookup"
          /\ count' = 0 /\ lookups' = 0 /\ probes' = 0 /\ ~found'
          /\ init_error' = ""
          /\ client' = NoClient]_vars
  /\ [](ipc = "loop" /\ healthy = "False" => ENABLED init_server_not_up)
  /\ []((launched /\ ~absent_seen /\ ~hc_true /\ healthy # "True") =>
          /\ InReadinessLoop
          /\ init_error = ""
          /\ client = NoClient)

\* the process was always found, the probe never answered 200/201, and the
\* loop has gone round as often as is counted
C7_Witness ==
  /\ ipc = "loop"
  /\ healthy = "False"
  /\ cycles = MaxCycles
  /\ ~absent_seen
  /\ client = NoClient
  /\ init_error = ""

NotRunningError ==
  StartupError("Sever process not running after waiting for 100. Terminating")

\* C8: one call of is_server_healthy looks the process up at most 5 times
\* and waits WAIT_TIME once after every lookup that found it absent; the
\* 'process not running' error is raised exactly when all 5 lookups found it
\* absent (after 5 waits, 100 s in all), and it ends init with the wrapped
\* startup error, after which init takes no further step; a call in which a
\* lookup found the process raises no such error.
C8_LivenessRetryBudget ==
  /\ lookups <= 5
  /\ count = lookups - (IF found THEN 1 ELSE 0)
  /\ slept = count * 20
  /\ (ipc = "lookup" /\ lookups = 5 /\ ~found) =>
       /\ ENABLED is_server_healthy_raise
       /\ ~ENABLED is_server_healthy_lookup
  /\ (ipc = "lookup" /\ lookups < 5) =>
       /\ ~ENABLED is_server_healthy_raise
       /\ ENABLED is_server_healthy_lookup
  /\ init_error = NotRunningError =>
       /\ ipc = "failed"
       /\ lookups = 5 /\ count = 5 /\ slept = 100
       /\ ~found
       /\ probes = 0
       /\ client = NoClient
  /\ ipc = "failed" => init_error # "" /\ ~ENABLED InitStep
  /\ found => init_error # NotRunningError

\* init has ended with the 'process not running' error in a health check
\* that followed an unhealthy cycle
C8_Witness ==
  /\ ipc = "failed"
  /\ init_error = NotRunningError
  /\ lookups = 5
  /\ cycles >= 1

\* C9: is_server_healthy returns True only when, in that call, the process
\* was found and the one probe was answered with 200 or 201; with the process
\* found and any other answer, or an exception of the probe, it returns False
\* and raises nothing; a call sends at most one probe, and none before a
\* lookup has found the process.
C9_HealthyOnly200Or201 ==
  /\ probes <= 1
  /\ probes = 1 => found
  /\ ipc = "probe" => found /\ probes = 0
  /\ healthy = "True" =>
       /\ found
       /\ probes = 1
       /\ ~probe.raised
       /\ probe.status \in {200, 201}
  /\ ipc = "loop" =>
       /\ probes = 1
       /\ healthy \in {"True", "False"}
       /\ (probe.raised \/ probe.status \notin {200, 201}) =>
            healthy = "False" /\ init_error = ""

\* the process was found after two absent lookups and the probe got a 500
C9_Witness ==
  /\ ipc = "loop"
  /\ count = 2
  /\ found
  /\ probe = [raised |-> FALSE, status |-> 500]
  /\ healthy = "False"

\* C10: once init has failed the client is unset and stays so: no generate
\* call is or was ever made, and a run returns the "Client is not
\* initialized" envelope.
C10_NoServiceAfterFailedInit ==
  ipc = "failed" =>
    /\ client = NoClient
    /\ ~ENABLED InitStep
    /\ ~sent
    /\ calls = <<>>
    /\ rpc \in {"idle", "returned"}
    /\ rpc = "returned" => response = NotInitializedEnvelope

\* the server was healthy, the construction of the client failed, and a
\* well-formed request was turned away
C10_Witness ==
  /\ ipc = "failed"
  /\ hc_true
  /\ init_error = StartupError("client construction failed")
  /\ rpc = "returned"
  /\ WellFormed(req)
  /\ Len(req.items) = 1
  /\ response = NotInitializedEnvelope

\* the MLmodel file is absent, or it is there without a task_type: nothing
\* in it, no flavors, no hftransformersv2 flavor, or that flavor without the
\* key
LacksTaskType(m) ==
  /\ m # NoMlmodel
  /\ m.loads # "error"
  /\ m.task = "absent"

\* C11: when the MLmodel file is absent or carries no task_type, init does
\* not fail on that account: task_type is text-generation and init goes on
\* to list the model path and start the server.
C11_MissingTaskTypeDefaults ==
  (ipc # "start" /\ LacksTaskType(mlmodel)) =>
    /\ task_type = TEXT_GENERATION
    /\ ipc \in {"listdir", "launch", "failed"}
    /\ ipc = "failed" =>
         init_error = StartupError("No such file or directory")

\* the states in which init has read the MLmodel file and not yet started
\* the server, or has failed before that
BeforeLaunch == ipc \in {"listdir", "launch"} \/ (ipc = "failed" /\ ~launched)

\* C12: an MLmodel file that names a task type other than text-generation
\* and chat-completion makes init fail at once: the server is never started
\* and no health check, lookup or probe, is ever made.
C12_UnsupportedTaskFailsBeforeLaunch ==
  /\ (BeforeLaunch /\ mlmodel.task \notin
        {"absent", TEXT_GENERATION, CHAT_COMPLETION}) =>
       /\ ipc = "failed"
       /\ init_error = StartupError("Unsupported task_type " \o mlmodel.task)
       /\ ~ENABLED InitStep
       /\ client = NoClient
  /\ ~launched =>
       /\ lookups = 0 /\ probes = 0 /\ count = 0
       /\ ~hc_true
       /\ healthy = "none"
       /\ ipc \notin {"lookup", "probe", "loop", "client", "done"}

\* init has failed on the task type "summarization" and nothing was started
C12_Witness ==
  /\ ipc = "failed"
  /\ mlmodel.task = OTHER_TASK
  /\ init_error = StartupError("Unsupported task_type summarization")
  /\ ~launched
  /\ rpc = "returned"

\* C13: the global task_type is text-generation or chat-completion in every
\* state, and after init has read the MLmodel file it never changes.
C13_TaskTypeIsEnumAndFixed ==
  /\ [](task_type \in {TEXT_GENERATION, CHAT_COMPLETION})
  /\ [][ipc # "start" => task_type' = task_type]_vars

\* what init can fail on besides the liveness budget: the MLmodel file, the
\* task type, the model path, the construction of the client
OtherStartupFailures ==
  {StartupError("yaml error"), StartupError("'task_type'"),
   StartupError("Unsupported task_type " \o OTHER_TASK),
   StartupError("No such file or directory"),
   StartupError("client construction failed")}

AlternatingTranscript(t) ==
  /\ Len(t) > 0
  /\ Len(t) % 2 = 1
  /\ \A i \in 1..Len(t) :
       /\ t[i].k = "turn"
       /\ t[i].role = (IF i % 2 = 1 THEN "user" ELSE "assistant")

\* a content without the white space at its two ends
Trimmed(c) ==
  LET inked == {i \in 1..Len(c) : c[i] \notin {" ", "\n", "\t"}} IN
  IF inked = {} THEN <<>>
  ELSE SubSeq(c, CHOOSE i \in inked : \A j \in inked : i <= j,
                 CHOOSE i \in inked : \A j \in inked : i >= j)

\* what one turn adds to the prompt
Segment(turn) ==
  IF turn.role = "user"
  THEN <<"[", "I", "N", "S", "T", "]">> \o Trimmed(turn.content)
         \o <<"[", "/", "I", "N", "S", "T", "]">>
  ELSE Trimmed(turn.content) \o <<"\n">>

\* the segments of the first n turns, in order
RECURSIVE Segments(_, _)
Segments(t, n) ==
  IF n = 0 THEN <<>> ELSE Segments(t, n - 1) \o Segment(t[n])

IsParseError(r) ==
  /\ r.kind = "envelope"
  /\ r.exception.enc = "json"
  /\ r.exception.text = USAGE_HINT

\* the payload is an object whose input_data is an object with a list as
\* input_string and, if it has parameters at all, a mapping as parameters
ShapeOk(data) ==
  /\ data.top = "obj"
  /\ data.input_data = "dict"
  /\ data.input_string = "list"
  /\ data.parameters \in {"absent", "dict"}

\* C16: get_request_data fails, whatever the task type, on a payload that is
\* no object, has no object as input_data, no list as input_string, or
\* parameters that are no mapping; for text-generation it succeeds on every
\* other payload with the input_string list as it came and the parameters
\* (none when the key is absent); for chat-completion it fails in addition
\* exactly on the transcripts the flattening rejects.
C16_ParserShapeValidation ==
  (parsed /\ rpc # "idle") =>
    /\ ~ShapeOk(req) =>
         /\ rpc = "returned"
         /\ IsParseError(response)
         /\ calls = <<>>
    /\ (ShapeOk(req) /\ task_type = TEXT_GENERATION) =>
         /\ ~IsParseError(response)
         /\ query = [is_list |-> TRUE, items |-> req.items]
         /\ params = (IF req.parameters = "absent" THEN {} ELSE req.map)
    /\ (ShapeOk(req) /\ task_type = CHAT_COMPLETION) =>
         /\ IsParseError(response) <=> ~AlternatingTranscript(req.items)
         /\ ~IsParseError(response) =>
              /\ ~query.is_list
              /\ params = (IF req.parameters = "absent" THEN {} ELSE req.map)

\* a text-generation request with parameters and two prompts was parsed
C16_Witness ==
  /\ parsed
  /\ task_type = TEXT_GENERATION
  /\ rpc = "loop"
  /\ req.parameters = "dict"
  /\ params = SomeParams
  /\ query = [is_list |-> TRUE, items |-> req.items]
  /\ Len(req.items) = 2

\* C17: the global client changes only once, from unset to set, in the last
\* step of a successful init; no step of run, whatever its outcome, changes
\* client or task_type, and a set client is never unset.
C17_ClientWrittenOnce ==
  [][/\ client' # client =>
          /\ client = NoClient
          /\ client' = TheClient
          /\ ipc = "client"
          /\ ipc' = "done"
          /\ init_error' = ""
     /\ rvars' # rvars => (client' = client /\ task_type' = task_type)
     /\ client = TheClient => client' = TheClient]_vars

\* a run failed in the backend and the client is still there
C17_Witness ==
  /\ client = TheClient
  /\ rpc = "returned"
  /\ LastRaised
  /\ response.kind = "envelope"
  /\ ipc = "done"

\* C18: when the client is set, init has checked the task type, started the
\* server and then seen a health check return True, in this order: no
\* lookup or probe happens before the start of the server, no True health
\* check without a found process and a probe, and the client is constructed
\* only after a True health check.
C18_StartupOrder ==
  /\ client = TheClient =>
       /\ ipc = "done"
       /\ task_type \in {TEXT_GENERATION, CHAT_COMPLETION}
       /\ launched
       /\ hc_true
  /\ ipc \in {"client", "done"} => hc_true /\ launched
  /\ hc_true => launched /\ ipc \in {"client", "done", "failed"}
  /\ ipc \in {"lookup", "probe", "loop"} =>
       /\ launched
       /\ ~hc_true
       /\ client = NoClient
       /\ task_type \in {TEXT_GENERATION, CHAT_COMPLETION}
  /\ healthy = "True" =>
       /\ ipc = "loop"
       /\ found
       /\ probes = 1
       /\ ~probe.raised
       /\ probe.status \in {200, 201}
  /\ ~launched => lookups = 0 /\ probes = 0 /\ ~hc_true /\ client = NoClient

\* the client serves a chat-completion request after a full startup
C18_Witness ==
  /\ client = TheClient
  /\ ipc = "done"
  /\ launched
  /\ hc_true
  /\ task_type = CHAT_COMPLETION
  /\ rpc = "chat_wait"

AssertionEnvelope ==
  Envelope(PROCESSING_ERROR,
           Plain("query should be a list for text-generation"))

\* C19: the assert of the text-generation branch never fails: a run that is
\* past the client check, the parser and the chat-completion branch has
\* task_type text-generation and a list as query, and no run returns the
\* envelope of the failed assert.
C19_AssertNeverFires ==
  /\ response # AssertionEnvelope
  /\ (rpc # "idle" /\ parsed /\ task_type # CHAT_COMPLETION
        /\ ~IsParseError(response)) =>
       /\ task_type = TEXT_GENERATION
       /\ query.is_list
       /\ query.items = req.items
  /\ rpc \in {"loop", "loop_wait"} => task_type = TEXT_GENERATION

\* the assert was passed with a list of two prompts
C19_Witness ==
  /\ rpc = "loop"
  /\ parsed
  /\ task_type = TEXT_GENERATION
  /\ query.is_list
  /\ Len(query.items) = 2
  /\ calls = <<>>

\* C20: in a text-generation run whose generate call for prompt k raised,
\* k+1 calls were made, for the prompts 0..k in order, none for a later
\* prompt, and the run returns the error envelope alone: it holds the
\* message of the exception and none of the k outputs got before.
C20_BatchAllOrNothing ==
  (task_type = TEXT_GENERATION /\ LastRaised) =>
    /\ rpc = "returned"
    /\ ~ENABLED run_generate
    /\ Len(calls) = Len(results) + 1
    /\ Len(calls) <= Len(req.items)
    /\ \A i \in 1..Len(calls) :
         /\ calls[i].prompt = req.items[i]
         /\ i < Len(calls) =>
              /\ calls[i].out.st = "ok"
              /\ results[i].text = calls[i].out.text
    /\ response.kind = "envelope"
    /\ response.items = <<>>
    /\ response.error = PROCESSING_ERROR
    /\ response.exception = Plain(calls[Len(calls)].out.text)
    /\ response.exception.text \notin Texts

\* the second of three prompts failed: two calls, one output lost, no third
\* call
C20_Witness ==
  /\ task_type = TEXT_GENERATION
  /\ LastRaised
  /\ rpc = "returned"
  /\ Len(req.items) = 3
  /\ Len(calls) = 2
  /\ Len(results) = 1
  /\ response.kind = "envelope"

====
